---- MODULE Spec2Model ----
(***************************************************************************)
(* bevy_window: the Window record and its queue of WindowCommand values,   *)
(* modelled from crates/bevy_window/src/window.rs.                         *)
(*                                                                         *)
(* The variables named like fields of `struct Window` are the program's    *)
(* state.  The remaining variables are history variables: they record the  *)
(* calls made and the values handed out, and no action reads them to       *)
(* decide what the program does.                                           *)
(***************************************************************************)
EXTENDS Integers, Sequences, FiniteSets, TLC

(***************************************************************************)
(* Bounds and input domains.                                               *)
(***************************************************************************)
\* Total number of application-driven mutator calls in one behaviour.
MaxCalls == 2

\* f32 logical sizes handed to set_resolution, as <<width, height>>.
LogicalSizes == {<<800, 600>>, <<1280, 720>>}
\* u32 physical sizes reported by the backend, as <<width, height>>.
PhysicalSizes == {<<1280, 720>>, <<1920, 1080>>}
\* f64 scale factors reported by the backend.
ScaleFactors == {1, 2}
Titles == {"bevy", "Game"}
\* Vec2 cursor coordinates the application asks for.
Positions == {<<0, 0>>, <<10, 20>>}
\* Option<Vec2> cursor coordinates the backend reports.
ReportedPositions == {<<>>, <<(<<5, 5>>)>>}

\* Option<T>: None and Some(v).
None == <<>>
Some(v) == <<v>>

\* enum WindowMode
Windowed == [kind |-> "Windowed"]
BorderlessFullscreen == [kind |-> "BorderlessFullscreen"]
Fullscreen(use_size) == [kind |-> "Fullscreen", use_size |-> use_size]
WindowModes == {Windowed, BorderlessFullscreen} \cup {Fullscreen(b) : b \in BOOLEAN}

\* struct WindowId(Uuid): the uuid as a number.
primary == 0

\* impl Default for WindowDescriptor
DefaultWindowDescriptor ==
    [ width |-> 1280, height |-> 720, title |-> "bevy", vsync |-> TRUE,
      resizable |-> TRUE, decorations |-> TRUE, cursor_visible |-> TRUE,
      cursor_locked |-> FALSE, mode |-> Windowed ]

\* A descriptor that differs from the default in every field.
OtherWindowDescriptor ==
    [ width |-> 800, height |-> 600, title |-> "Game", vsync |-> FALSE,
      resizable |-> FALSE, decorations |-> FALSE, cursor_visible |-> FALSE,
      cursor_locked |-> TRUE, mode |-> Fullscreen(TRUE) ]

\* The arguments of Window::new: id, descriptor, physical size, scale factor.
NewArguments ==
    { <<primary, DefaultWindowDescriptor, 1280, 720, 1>>,
      <<1, OtherWindowDescriptor, 1920, 1080, 2>> }

(***************************************************************************)
(* enum WindowCommand, one constructor per variant.                        *)
(***************************************************************************)
SetWindowMode(mode, resolution) ==
    [type |-> "SetWindowMode", mode |-> mode, resolution |-> resolution]
SetTitle(title) == [type |-> "SetTitle", title |-> title]
SetResolution(resolution) == [type |-> "SetResolution", resolution |-> resolution]
SetVsync(vsync) == [type |-> "SetVsync", vsync |-> vsync]
SetResizable(resizable) == [type |-> "SetResizable", resizable |-> resizable]
SetDecorations(decorations) == [type |-> "SetDecorations", decorations |-> decorations]
SetCursorLockMode(locked) == [type |-> "SetCursorLockMode", locked |-> locked]
SetCursorVisibility(visible) == [type |-> "SetCursorVisibility", visible |-> visible]
SetCursorPosition(position) == [type |-> "SetCursorPosition", position |-> position]
SetMaximized(maximized) == [type |-> "SetMaximized", maximized |-> maximized]

VARIABLES
    \* struct Window
    id, requested_width, requested_height, physical_width, physical_height,
    scale_factor, title, vsync, resizable, decorations, cursor_visible,
    cursor_locked, cursor_position, mode, command_queue,
    \* history variables
    window_descriptor,  \* the descriptor Window::new was given
    last_op,            \* the most recent call, with its arguments
    call_log,           \* every application-driven mutator call, in call order
    drain_mark,         \* Len(call_log) at the most recent drain_commands()
    history,            \* every command pushed onto command_queue, in push order
    delivered,          \* the results of all drain_commands() calls, concatenated
    last_drain,         \* the sequence the most recent drain_commands() ranged over
    last_taken,         \* the part of it the caller read before releasing it
    backend,            \* what the backend reported last (ctor arguments at first)
    identities,         \* the identities WindowId::new() has returned, in order
    trial               \* the commutation experiment in progress, if any

fields == << id, requested_width, requested_height, physical_width, physical_height,
             scale_factor, title, vsync, resizable, decorations, cursor_visible,
             cursor_locked, cursor_position, mode >>

ghosts == << window_descriptor, last_op, call_log, drain_mark, history, delivered,
             last_drain, last_taken, backend >>

\* The variables only the identity and commutation specifications change.
aside == << identities, trial >>

vars == << fields, command_queue, ghosts, aside >>

(***************************************************************************)
(* Window::new                                                             *)
(***************************************************************************)
\* Mutant of Window::new: the physical size is read off the descriptor.
new_size_from_descriptor(wid, desc, pw, ph, sf) ==
    /\ id = wid
    /\ requested_width = desc.width
    /\ requested_height = desc.height
    /\ physical_width = desc.width
    /\ physical_height = desc.height
    /\ scale_factor = sf
    /\ title = desc.title
    /\ vsync = desc.vsync
    /\ resizable = desc.resizable
    /\ decorations = desc.decorations
    /\ cursor_visible = desc.cursor_visible
    /\ cursor_locked = desc.cursor_locked
    /\ cursor_position = None
    /\ mode = desc.mode
    /\ command_queue = << >>

new(wid, desc, pw, ph, sf) ==
    /\ id = wid
    /\ requested_width = desc.width
    /\ requested_height = desc.height
    /\ physical_width = pw
    /\ physical_height = ph
    /\ scale_factor = sf
    /\ title = desc.title
    /\ vsync = desc.vsync
    /\ resizable = desc.resizable
    /\ decorations = desc.decorations
    /\ cursor_visible = desc.cursor_visible
    /\ cursor_locked = desc.cursor_locked
    /\ cursor_position = None
    /\ mode = desc.mode
    /\ command_queue = << >>

Init ==
    \E a \in NewArguments :
      LET wid == a[1]  desc == a[2]  pw == a[3]  ph == a[4]  sf == a[5] IN
        /\ new(wid, desc, pw, ph, sf)
        /\ window_descriptor = desc
        /\ last_op = [op |-> "new", id |-> wid, window_descriptor |-> desc,
                      physical_width |-> pw, physical_height |-> ph,
                      scale_factor |-> sf]
        /\ call_log = << >>
        /\ drain_mark = 0
        /\ history = << >>
        /\ delivered = << >>
        /\ last_drain = << >>
        /\ last_taken = << >>
        /\ backend = [size |-> <<pw, ph>>, scale_factor |-> sf, cursor |-> None]
        /\ identities = << >>
        /\ trial = [phase |-> "idle"]

(***************************************************************************)
(* Window::width and Window::height:                                       *)
(*     (self.physical_width as f64 / self.scale_factor) as f32             *)
(* A float is [kind |-> "zero"], [kind |-> "inf"], [kind |-> "nan"] or     *)
(* [kind |-> "finite", m |-> m, e |-> e], the value m * 2^e with           *)
(* 2^23 <= m < 2^24 (a normal f32).  Only non-negative operands are        *)
(* modelled.  `as f64` of a u32 is exact.  The f64 quotient is kept as the *)
(* exact fraction <<p, s>>: for the operands modelled (p < 2^26, s < 2^3)  *)
(* the quotient is either an f32 tie or further from every f32 tie than    *)
(* the f64 rounding error, so narrowing the f64 quotient to f32 and        *)
(* rounding the exact quotient to f32 give the same value.  `as f32`       *)
(* rounds to the nearest f32, ties to the even mantissa.                   *)
(***************************************************************************)
\* f32 has a 24-bit significand.
F32MantissaBits == 24

\* 2^n for n in 0..30, computed once.
RECURSIVE Doubled(_)
Doubled(n) == IF n = 0 THEN 1 ELSE 2 * Doubled(n - 1)
PowersOfTwo == [n \in 0..30 |-> Doubled(n)]
Pow2(n) == PowersOfTwo[n]

\* a / d rounded to the nearest integer, ties to even (a >= 0, d > 0).
RoundHalfEven(a, d) ==
    LET q == a \div d
        r == a % d
    IN  IF 2 * r < d THEN q
        ELSE IF 2 * r > d THEN q + 1
        ELSE IF q % 2 = 0 THEN q ELSE q + 1

\* The least e >= 0 with p / s < 2^24 * 2^e.
RECURSIVE ExponentUp(_, _, _)
ExponentUp(p, s, e) ==
    IF p < s * Pow2(F32MantissaBits) * Pow2(e) THEN e ELSE ExponentUp(p, s, e + 1)

\* The least k >= 0 with p * 2^k / s >= 2^23.
RECURSIVE ExponentDown(_, _, _)
ExponentDown(p, s, k) ==
    IF p * Pow2(k) >= s * Pow2(F32MantissaBits - 1) THEN k
    ELSE ExponentDown(p, s, k + 1)

\* A significand that rounding carried to 2^24 moves to the next binade.
Renormalised(m, e) ==
    IF m = Pow2(F32MantissaBits)
    THEN [kind |-> "finite", m |-> Pow2(F32MantissaBits - 1), e |-> e + 1]
    ELSE [kind |-> "finite", m |-> m, e |-> e]

\* `q as f32` for the f64 value q = p / s > 0.
NarrowToF32(p, s) ==
    IF p >= s * Pow2(F32MantissaBits - 1)
    THEN LET e == ExponentUp(p, s, 0)
         IN  Renormalised(RoundHalfEven(p, s * Pow2(e)), e)
    ELSE LET k == ExponentDown(p, s, 0)
         IN  Renormalised(RoundHalfEven(p * Pow2(k), s), 0 - k)

\* Mutant of LogicalSize: the division is done on integers
\* ((physical / scale_factor as u32) as f32).
LogicalSizeIntegerDivision(physical, scale) ==
    IF scale = 0 THEN (IF physical = 0 THEN [kind |-> "nan"] ELSE [kind |-> "inf"])
    ELSE IF physical \div scale = 0 THEN [kind |-> "zero"]
    ELSE NarrowToF32(physical \div scale, 1)

\* (physical as f64 / scale) as f32: x / 0.0 is +inf, 0.0 / 0.0 is NaN.
LogicalSize(physical, scale) ==
    IF scale = 0 THEN (IF physical = 0 THEN [kind |-> "nan"] ELSE [kind |-> "inf"])
    ELSE IF physical = 0 THEN [kind |-> "zero"]
    ELSE NarrowToF32(physical, scale)

\* Window::width and Window::height (set_resolution has parameters of these
\* names).
Window_width == LogicalSize(physical_width, scale_factor)
Window_height == LogicalSize(physical_height, scale_factor)

(***************************************************************************)
(* Bookkeeping shared by the actions.                                      *)
(***************************************************************************)
\* Mutant of push: the command goes to the head of the queue.
push_front(cmd) ==
    /\ command_queue' = << cmd >> \o command_queue
    /\ history' = Append(history, cmd)

\* self.command_queue.push(cmd)
push(cmd) ==
    /\ command_queue' = Append(command_queue, cmd)
    /\ history' = Append(history, cmd)

\* An application-driven mutator was called.
Called(call) ==
    /\ Len(call_log) < MaxCalls
    /\ call_log' = Append(call_log, call)
    /\ last_op' = call
    /\ UNCHANGED << window_descriptor, drain_mark, delivered, last_drain,
                    last_taken, backend, aside >>

\* A backend-report operation was called.
Reported(call) ==
    /\ last_op' = call
    /\ UNCHANGED << window_descriptor, call_log, drain_mark, history, delivered,
                    last_drain, last_taken, aside >>

(***************************************************************************)
(* Application-driven mutators.                                            *)
(***************************************************************************)
\* Mutant of set_maximized: a maximized window is also marked not resizable.
set_maximized_writes_resizable(maximized) ==
    /\ push(SetMaximized(maximized))
    /\ resizable' = ~maximized
    /\ UNCHANGED << id, requested_width, requested_height, physical_width,
                    physical_height, scale_factor, title, vsync, decorations,
                    cursor_visible, cursor_locked, cursor_position, mode >>
    /\ Called([op |-> "set_maximized", maximized |-> maximized])

set_maximized(maximized) ==
    /\ push(SetMaximized(maximized))
    /\ UNCHANGED fields
    /\ Called([op |-> "set_maximized", maximized |-> maximized])

\* Mutant of set_resolution: a size that is not positive is ignored.
set_resolution_validated(width, height) ==
    /\ IF width > 0 /\ height > 0
       THEN /\ requested_width' = width
            /\ requested_height' = height
            /\ push(SetResolution(<<requested_width', requested_height'>>))
       ELSE UNCHANGED << requested_width, requested_height, command_queue, history >>
    /\ UNCHANGED << id, physical_width, physical_height, scale_factor, title, vsync,
                    resizable, decorations, cursor_visible, cursor_locked,
                    cursor_position, mode >>
    /\ Called([op |-> "set_resolution", width |-> width, height |-> height])

set_resolution(width, height) ==
    /\ requested_width' = width
    /\ requested_height' = height
    /\ push(SetResolution(<<requested_width', requested_height'>>))
    /\ UNCHANGED << id, physical_width, physical_height, scale_factor, title, vsync,
                    resizable, decorations, cursor_visible, cursor_locked,
                    cursor_position, mode >>
    /\ Called([op |-> "set_resolution", width |-> width, height |-> height])

\* Mutant of set_title: the command carries the title that was replaced.
set_title_enqueues_previous(t) ==
    /\ title' = t
    /\ push(SetTitle(title))
    /\ UNCHANGED << id, requested_width, requested_height, physical_width,
                    physical_height, scale_factor, vsync, resizable, decorations,
                    cursor_visible, cursor_locked, cursor_position, mode >>
    /\ Called([op |-> "set_title", title |-> t])

set_title(t) ==
    /\ title' = t
    /\ push(SetTitle(t))
    /\ UNCHANGED << id, requested_width, requested_height, physical_width,
                    physical_height, scale_factor, vsync, resizable, decorations,
                    cursor_visible, cursor_locked, cursor_position, mode >>
    /\ Called([op |-> "set_title", title |-> t])

\* Mutant of set_vsync: a call that changes nothing is not queued.
set_vsync_deduplicated(v) ==
    /\ vsync' = v
    /\ IF vsync = v THEN UNCHANGED << command_queue, history >> ELSE push(SetVsync(v))
    /\ UNCHANGED << id, requested_width, requested_height, physical_width,
                    physical_height, scale_factor, title, resizable, decorations,
                    cursor_visible, cursor_locked, cursor_position, mode >>
    /\ Called([op |-> "set_vsync", vsync |-> v])

set_vsync(v) ==
    /\ vsync' = v
    /\ push(SetVsync(v))
    /\ UNCHANGED << id, requested_width, requested_height, physical_width,
                    physical_height, scale_factor, title, resizable, decorations,
                    cursor_visible, cursor_locked, cursor_position, mode >>
    /\ Called([op |-> "set_vsync", vsync |-> v])

set_resizable(r) ==
    /\ resizable' = r
    /\ push(SetResizable(r))
    /\ UNCHANGED << id, requested_width, requested_height, physical_width,
                    physical_height, scale_factor, title, vsync, decorations,
                    cursor_visible, cursor_locked, cursor_position, mode >>
    /\ Called([op |-> "set_resizable", resizable |-> r])

set_decorations(d) ==
    /\ decorations' = d
    /\ push(SetDecorations(d))
    /\ UNCHANGED << id, requested_width, requested_height, physical_width,
                    physical_height, scale_factor, title, vsync, resizable,
                    cursor_visible, cursor_locked, cursor_position, mode >>
    /\ Called([op |-> "set_decorations", decorations |-> d])

set_cursor_lock_mode(lock_mode) ==
    /\ cursor_locked' = lock_mode
    /\ push(SetCursorLockMode(lock_mode))
    /\ UNCHANGED << id, requested_width, requested_height, physical_width,
                    physical_height, scale_factor, title, vsync, resizable,
                    decorations, cursor_visible, cursor_position, mode >>
    /\ Called([op |-> "set_cursor_lock_mode", lock_mode |-> lock_mode])

\* Mutant of set_cursor_visibility: it writes the lock field instead.
set_cursor_visibility_writes_locked(visibile_mode) ==
    /\ cursor_locked' = visibile_mode
    /\ push(SetCursorVisibility(visibile_mode))
    /\ UNCHANGED << id, requested_width, requested_height, physical_width,
                    physical_height, scale_factor, title, vsync, resizable,
                    decorations, cursor_visible, cursor_position, mode >>
    /\ Called([op |-> "set_cursor_visibility", visibile_mode |-> visibile_mode])

set_cursor_visibility(visibile_mode) ==
    /\ cursor_visible' = visibile_mode
    /\ push(SetCursorVisibility(visibile_mode))
    /\ UNCHANGED << id, requested_width, requested_height, physical_width,
                    physical_height, scale_factor, title, vsync, resizable,
                    decorations, cursor_locked, cursor_position, mode >>
    /\ Called([op |-> "set_cursor_visibility", visibile_mode |-> visibile_mode])

\* Mutant of set_cursor_position: it also writes the field, like its siblings.
set_cursor_position_writes_field(position) ==
    /\ cursor_position' = Some(position)
    /\ push(SetCursorPosition(position))
    /\ UNCHANGED << id, requested_width, requested_height, physical_width,
                    physical_height, scale_factor, title, vsync, resizable,
                    decorations, cursor_visible, cursor_locked, mode >>
    /\ Called([op |-> "set_cursor_position", position |-> position])

set_cursor_position(position) ==
    /\ push(SetCursorPosition(position))
    /\ UNCHANGED fields
    /\ Called([op |-> "set_cursor_position", position |-> position])

\* Mutant of set_mode: the cursor position is forgotten on a mode change.
set_mode_forgets_cursor(m) ==
    /\ mode' = m
    /\ cursor_position' = None
    /\ push(SetWindowMode(m, <<physical_width, physical_height>>))
    /\ UNCHANGED << id, requested_width, requested_height, physical_width,
                    physical_height, scale_factor, title, vsync, resizable,
                    decorations, cursor_visible, cursor_locked >>
    /\ Called([op |-> "set_mode", mode |-> m])

\* Mutant of set_mode: the resolution is the requested size.
set_mode_requested_size(m) ==
    /\ mode' = m
    /\ push(SetWindowMode(m, <<requested_width, requested_height>>))
    /\ UNCHANGED << id, requested_width, requested_height, physical_width,
                    physical_height, scale_factor, title, vsync, resizable,
                    decorations, cursor_visible, cursor_locked, cursor_position >>
    /\ Called([op |-> "set_mode", mode |-> m])

set_mode(m) ==
    /\ mode' = m
    /\ push(SetWindowMode(m, <<physical_width, physical_height>>))
    /\ UNCHANGED << id, requested_width, requested_height, physical_width,
                    physical_height, scale_factor, title, vsync, resizable,
                    decorations, cursor_visible, cursor_locked, cursor_position >>
    /\ Called([op |-> "set_mode", mode |-> m])

(***************************************************************************)
(* Backend-report mutators.                                                *)
(***************************************************************************)
\* Mutant of update_scale_factor_from_backend: it queues a command, as the
\* application-driven mutators do.
update_scale_factor_enqueues(sf) ==
    /\ scale_factor' = sf
    /\ push(SetResolution(<<requested_width, requested_height>>))
    /\ UNCHANGED << id, requested_width, requested_height, physical_width,
                    physical_height, title, vsync, resizable, decorations,
                    cursor_visible, cursor_locked, cursor_position, mode >>
    /\ backend' = [backend EXCEPT !.scale_factor = sf]
    /\ last_op' = [op |-> "update_scale_factor_from_backend", scale_factor |-> sf]
    /\ UNCHANGED << window_descriptor, call_log, drain_mark, delivered, last_drain,
                    last_taken, aside >>

update_scale_factor_from_backend(sf) ==
    /\ scale_factor' = sf
    /\ UNCHANGED << id, requested_width, requested_height, physical_width,
                    physical_height, title, vsync, resizable, decorations,
                    cursor_visible, cursor_locked, cursor_position, mode,
                    command_queue >>
    /\ backend' = [backend EXCEPT !.scale_factor = sf]
    /\ Reported([op |-> "update_scale_factor_from_backend", scale_factor |-> sf])

\* Mutant of update_actual_size_from_backend: queued SetWindowMode commands
\* follow the physical size instead of keeping the one they were given.
update_actual_size_rewrites_queue(pw, ph) ==
    /\ physical_width' = pw
    /\ physical_height' = ph
    /\ command_queue' =
           [i \in 1..Len(command_queue) |->
               IF command_queue[i].type = "SetWindowMode"
               THEN SetWindowMode(command_queue[i].mode, <<pw, ph>>)
               ELSE command_queue[i]]
    /\ UNCHANGED << id, requested_width, requested_height, scale_factor, title,
                    vsync, resizable, decorations, cursor_visible, cursor_locked,
                    cursor_position, mode >>
    /\ backend' = [backend EXCEPT !.size = <<pw, ph>>]
    /\ Reported([op |-> "update_actual_size_from_backend",
                 physical_width |-> pw, physical_height |-> ph])

update_actual_size_from_backend(pw, ph) ==
    /\ physical_width' = pw
    /\ physical_height' = ph
    /\ UNCHANGED << id, requested_width, requested_height, scale_factor, title,
                    vsync, resizable, decorations, cursor_visible, cursor_locked,
                    cursor_position, mode, command_queue >>
    /\ backend' = [backend EXCEPT !.size = <<pw, ph>>]
    /\ Reported([op |-> "update_actual_size_from_backend",
                 physical_width |-> pw, physical_height |-> ph])

update_cursor_position_from_backend(cp) ==
    /\ cursor_position' = cp
    /\ UNCHANGED << id, requested_width, requested_height, physical_width,
                    physical_height, scale_factor, title, vsync, resizable,
                    decorations, cursor_visible, cursor_locked, mode,
                    command_queue >>
    /\ backend' = [backend EXCEPT !.cursor = Some(cp)]
    /\ Reported([op |-> "update_cursor_position_from_backend",
                 cursor_position |-> cp])

(***************************************************************************)
(* Window::drain_commands: self.command_queue.drain(..).  The Drain        *)
(* iterator ranges over the whole queue and borrows the window mutably, so *)
(* nothing else runs while it is alive; the caller reads the first n items *)
(* and releases it, which empties the queue whatever n was.                *)
(***************************************************************************)
\* Mutant of drain_commands: the commands are copied out and stay queued
\* (self.command_queue.iter().cloned()).
drain_commands_copies(n) ==
    /\ n \in 0..Len(command_queue)
    /\ command_queue' = command_queue
    /\ last_drain' = command_queue
    /\ last_taken' = SubSeq(command_queue, 1, n)
    /\ delivered' = delivered \o command_queue
    /\ drain_mark' = Len(call_log)
    /\ last_op' = [op |-> "drain_commands"]
    /\ UNCHANGED fields
    /\ UNCHANGED << window_descriptor, call_log, history, backend, aside >>

\* Mutant of drain_commands: the commands the caller did not read stay queued.
drain_commands_leaves_unread(n) ==
    /\ n \in 0..Len(command_queue)
    /\ command_queue' = SubSeq(command_queue, n + 1, Len(command_queue))
    /\ last_drain' = command_queue
    /\ last_taken' = SubSeq(command_queue, 1, n)
    /\ delivered' = delivered \o SubSeq(command_queue, 1, n)
    /\ drain_mark' = Len(call_log)
    /\ last_op' = [op |-> "drain_commands"]
    /\ UNCHANGED fields
    /\ UNCHANGED << window_descriptor, call_log, history, backend, aside >>

\* Mutant of drain_commands: the newest command stays behind
\* (self.command_queue.drain(..len - 1)).
drain_commands_keeps_last(n) ==
    LET k == IF command_queue = << >> THEN 0 ELSE Len(command_queue) - 1 IN
    /\ n \in 0..k
    /\ command_queue' = SubSeq(command_queue, k + 1, Len(command_queue))
    /\ last_drain' = SubSeq(command_queue, 1, k)
    /\ last_taken' = SubSeq(command_queue, 1, n)
    /\ delivered' = delivered \o SubSeq(command_queue, 1, k)
    /\ drain_mark' = Len(call_log)
    /\ last_op' = [op |-> "drain_commands"]
    /\ UNCHANGED fields
    /\ UNCHANGED << window_descriptor, call_log, history, backend, aside >>

drain_commands(n) ==
    /\ n \in 0..Len(command_queue)
    /\ command_queue' = << >>
    /\ last_drain' = command_queue
    /\ last_taken' = SubSeq(command_queue, 1, n)
    /\ delivered' = delivered \o command_queue
    /\ drain_mark' = Len(call_log)
    /\ last_op' = [op |-> "drain_commands"]
    /\ UNCHANGED fields
    /\ UNCHANGED << window_descriptor, call_log, history, backend, aside >>

Next ==
    \/ \E b \in BOOLEAN : set_maximized(b)
    \/ \E s \in LogicalSizes : set_resolution(s[1], s[2])
    \/ \E t \in Titles : set_title(t)
    \/ \E b \in BOOLEAN : set_vsync(b)
    \/ \E b \in BOOLEAN : set_resizable(b)
    \/ \E b \in BOOLEAN : set_decorations(b)
    \/ \E b \in BOOLEAN : set_cursor_lock_mode(b)
    \/ \E b \in BOOLEAN : set_cursor_visibility(b)
    \/ \E p \in Positions : set_cursor_position(p)
    \/ \E m \in WindowModes : set_mode(m)
    \/ \E sf \in ScaleFactors : update_scale_factor_from_backend(sf)
    \/ \E s \in PhysicalSizes : update_actual_size_from_backend(s[1], s[2])
    \/ \E cp \in ReportedPositions : update_cursor_position_from_backend(cp)
    \/ \E n \in 0..MaxCalls : drain_commands(n)

Spec == Init /\ [][Next]_vars

(***************************************************************************)
(* The same operations on numeric inputs the backend and the application   *)
(* may hand in: a zero physical size, a physical size beyond 2^24, scale   *)
(* factors 0.0 and 3.0, a negative and a zero requested size.  The other   *)
(* mutators get one input each.                                            *)
(***************************************************************************)
NumericLogicalSizes == {<<-1, 0>>, <<1280, 720>>}
NumericPhysicalSizes == {<<0, 0>>, <<1280, 720>>, <<16777217, 1>>}
NumericScaleFactors == {0, 1, 3}

NextNumeric ==
    \/ set_maximized(TRUE)
    \/ \E s \in NumericLogicalSizes : set_resolution(s[1], s[2])
    \/ set_title("Game")
    \/ set_vsync(FALSE)
    \/ set_resizable(FALSE)
    \/ set_decorations(FALSE)
    \/ set_cursor_lock_mode(TRUE)
    \/ set_cursor_visibility(FALSE)
    \/ set_cursor_position(<<10, 20>>)
    \/ set_mode(BorderlessFullscreen)
    \/ \E sf \in NumericScaleFactors : update_scale_factor_from_backend(sf)
    \/ \E s \in NumericPhysicalSizes : update_actual_size_from_backend(s[1], s[2])
    \/ update_cursor_position_from_backend(None)
    \/ \E n \in 0..MaxCalls : drain_commands(n)

SpecNumeric == Init /\ [][NextNumeric]_vars

(***************************************************************************)
(* The commutation experiment.  Mutator calls build a window; then one     *)
(* backend report r and one drain are applied to it in both orders:        *)
(*   begin_trial, r, drain_commands, rewind, drain_commands, r.            *)
(* begin_trial and rewind are steps of the experiment, not of the program: *)
(* the first remembers the window, the second remembers what the first     *)
(* order gave and puts the window back.  The report and the drain are the  *)
(* program's own operations.                                               *)
(***************************************************************************)
Mutate ==
    \/ \E b \in BOOLEAN : set_maximized(b)
    \/ \E s \in LogicalSizes : set_resolution(s[1], s[2])
    \/ \E t \in Titles : set_title(t)
    \/ \E b \in BOOLEAN : set_vsync(b)
    \/ \E b \in BOOLEAN : set_resizable(b)
    \/ \E b \in BOOLEAN : set_decorations(b)
    \/ \E b \in BOOLEAN : set_cursor_lock_mode(b)
    \/ \E b \in BOOLEAN : set_cursor_visibility(b)
    \/ \E p \in Positions : set_cursor_position(p)
    \/ \E m \in WindowModes : set_mode(m)

ReportCalls ==
    {[op |-> "update_scale_factor_from_backend", scale_factor |-> sf] :
        sf \in ScaleFactors}
    \cup {[op |-> "update_actual_size_from_backend",
           physical_width |-> s[1], physical_height |-> s[2]] : s \in PhysicalSizes}
    \cup {[op |-> "update_cursor_position_from_backend", cursor_position |-> cp] :
        cp \in ReportedPositions}

\* The backend-report operation a call record stands for.
ApplyReport(r) ==
    CASE r.op = "update_scale_factor_from_backend" ->
             update_scale_factor_from_backend(r.scale_factor)
      [] r.op = "update_actual_size_from_backend" ->
             update_actual_size_from_backend(r.physical_width, r.physical_height)
      [] r.op = "update_cursor_position_from_backend" ->
             update_cursor_position_from_backend(r.cursor_position)

\* The window and the history variables, to put back later.
Snapshot ==
    [ id |-> id, requested_width |-> requested_width,
      requested_height |-> requested_height, physical_width |-> physical_width,
      physical_height |-> physical_height, scale_factor |-> scale_factor,
      title |-> title, vsync |-> vsync, resizable |-> resizable,
      decorations |-> decorations, cursor_visible |-> cursor_visible,
      cursor_locked |-> cursor_locked, cursor_position |-> cursor_position,
      mode |-> mode, command_queue |-> command_queue, call_log |-> call_log,
      drain_mark |-> drain_mark, history |-> history, delivered |-> delivered,
      last_drain |-> last_drain, last_taken |-> last_taken, backend |-> backend ]

\* What the two orders are compared on: the window's fields, its queue and
\* the sequence the drain returned.
Observed == << fields, command_queue, last_drain >>

BeginTrial(r) ==
    /\ trial.phase = "idle"
    /\ trial' = [phase |-> "report_then_drain", report |-> r, start |-> Snapshot]
    /\ last_op' = [op |-> "begin_trial"]
    /\ UNCHANGED << fields, command_queue, window_descriptor, call_log, drain_mark,
                    history, delivered, last_drain, last_taken, backend,
                    identities >>

Rewind ==
    /\ trial.phase = "report_then_drain"
    /\ last_op.op = "drain_commands"
    /\ trial' = [phase |-> "drain_then_report", report |-> trial.report,
                 start |-> trial.start, first |-> Observed]
    /\ last_op' = [op |-> "rewind"]
    /\ id' = trial.start.id
    /\ requested_width' = trial.start.requested_width
    /\ requested_height' = trial.start.requested_height
    /\ physical_width' = trial.start.physical_width
    /\ physical_height' = trial.start.physical_height
    /\ scale_factor' = trial.start.scale_factor
    /\ title' = trial.start.title
    /\ vsync' = trial.start.vsync
    /\ resizable' = trial.start.resizable
    /\ decorations' = trial.start.decorations
    /\ cursor_visible' = trial.start.cursor_visible
    /\ cursor_locked' = trial.start.cursor_locked
    /\ cursor_position' = trial.start.cursor_position
    /\ mode' = trial.start.mode
    /\ command_queue' = trial.start.command_queue
    /\ call_log' = trial.start.call_log
    /\ drain_mark' = trial.start.drain_mark
    /\ history' = trial.start.history
    /\ delivered' = trial.start.delivered
    /\ last_drain' = trial.start.last_drain
    /\ last_taken' = trial.start.last_taken
    /\ backend' = trial.start.backend
    /\ UNCHANGED << window_descriptor, identities >>

\* The report of the experiment, in its place in either order.
TrialReport ==
    /\ \/ trial.phase = "report_then_drain" /\ last_op.op = "begin_trial"
       \/ trial.phase = "drain_then_report" /\ last_op.op = "drain_commands"
    /\ ApplyReport(trial.report)

\* The drain of the experiment, in its place in either order.
TrialDrain ==
    /\ \/ trial.phase = "report_then_drain" /\ last_op = trial.report
       \/ trial.phase = "drain_then_report" /\ last_op.op = "rewind"
    /\ \E n \in 0..MaxCalls : drain_commands(n)

NextCommute ==
    \/ trial.phase = "idle" /\ Mutate
    \/ \E r \in ReportCalls : BeginTrial(r)
    \/ TrialReport
    \/ TrialDrain
    \/ Rewind

SpecCommute == Init /\ [][NextCommute]_vars

(***************************************************************************)
(* impl WindowId.  WindowId::new() is Uuid::new_v4(): a version 4 uuid is  *)
(* random bits around two fixed fields, the version (binary 0100) and the  *)
(* variant (binary 10).  From the most significant end a uuid is 48 random *)
(* bits, the version, 12 random bits, the variant, 62 random bits; the     *)
(* model keeps the layout and draws UuidRandomBits random bits instead of  *)
(* 122: one below the variant, one between the fields, the rest on top.    *)
(* The random source may return any value, one it returned before          *)
(* included.                                                               *)
(***************************************************************************)
\* Random bits of a uuid in the model.
UuidRandomBits == 3
\* WindowId::new() calls in one behaviour.
MaxIds == 3

RandomDraws == 0..(Pow2(UuidRandomBits) - 1)

\* Mutant of new_v4: all bits are random, none is fixed.
new_v4_all_random(r) == r

\* Mutant of new_v4: the lowest random bit is not used.
new_v4_drops_low_bit(r) ==
    ((((r \div 4) * 16 + 4) * 2 + ((r \div 2) % 2)) * 4 + 2) * 2

\* Uuid::new_v4() on the random bits r.
new_v4(r) ==
    ((((r \div 4) * 16 + 4) * 2 + ((r \div 2) % 2)) * 4 + 2) * 2 + (r % 2)

\* Mutant of is_primary: the comparison is inverted.
is_not_primary(wid) == wid # primary

\* WindowId::is_primary
is_primary(wid) == wid = primary

\* impl Default for WindowId
WindowId_default == primary

\* WindowId::new(), with the random bits it drew.
WindowId_new(r) ==
    /\ Len(identities) < MaxIds
    /\ identities' = Append(identities, [random |-> r, id |-> new_v4(r)])
    /\ UNCHANGED << fields, command_queue, ghosts, trial >>

NextId == \E r \in RandomDraws : WindowId_new(r)

SpecId == Init /\ [][NextId]_vars

(***************************************************************************)
(* Vocabulary of the properties.                                           *)
(***************************************************************************)
BackendReportOps ==
    { "update_scale_factor_from_backend", "update_actual_size_from_backend",
      "update_cursor_position_from_backend" }

\* The mutator calls made since the last drain (or since construction).
PendingCalls == SubSeq(call_log, drain_mark + 1, Len(call_log))

\* Whether a mutator was ever called, and its most recent call.
HasCall(op) == \E i \in 1..Len(call_log) : call_log[i].op = op
LastCall(op) ==
    LET k == CHOOSE i \in 1..Len(call_log) :
                 /\ call_log[i].op = op
                 /\ \A j \in (i + 1)..Len(call_log) : call_log[j].op # op
    IN  call_log[k]

\* The command is of the variant of the call's mutator and carries the value
\* passed to the call.
Matches(cmd, call) ==
    CASE call.op = "set_maximized" -> cmd = SetMaximized(call.maximized)
      [] call.op = "set_resolution" -> cmd = SetResolution(<<call.width, call.height>>)
      [] call.op = "set_title" -> cmd = SetTitle(call.title)
      [] call.op = "set_vsync" -> cmd = SetVsync(call.vsync)
      [] call.op = "set_resizable" -> cmd = SetResizable(call.resizable)
      [] call.op = "set_decorations" -> cmd = SetDecorations(call.decorations)
      [] call.op = "set_cursor_lock_mode" -> cmd = SetCursorLockMode(call.lock_mode)
      [] call.op = "set_cursor_visibility" -> cmd = SetCursorVisibility(call.visibile_mode)
      [] call.op = "set_cursor_position" -> cmd = SetCursorPosition(call.position)
      [] call.op = "set_mode" -> cmd.type = "SetWindowMode" /\ cmd.mode = call.mode

(***************************************************************************)
(* C1: a drain_commands() call returns exactly one command per mutator     *)
(* call made since the previous drain (or since construction), in call     *)
(* order, each of the variant of its mutator and with the payload passed   *)
(* to the call, and it holds nothing back: the queue is empty afterwards.  *)
(***************************************************************************)
C1_DrainReturnsPendingCallsInOrder ==
    [][ last_op'.op = "drain_commands" =>
          /\ Len(last_drain') = Len(PendingCalls)
          /\ \A i \in 1..Len(PendingCalls) : Matches(last_drain'[i], PendingCalls[i])
          /\ command_queue' = << >> ]_vars

\* A drain that returned two commands of different variants.
C1_Witness ==
    /\ last_op.op = "drain_commands"
    /\ Len(last_drain) = 2
    /\ last_drain[1].type # last_drain[2].type

(***************************************************************************)
(* C2: whatever the interleaving of mutators, backend reports and drains,  *)
(* the results of all drains so far, concatenated, followed by the current *)
(* queue, are the commands ever pushed, in push order: nothing is lost,    *)
(* duplicated or reordered.                                                *)
(***************************************************************************)
C2_DeliveredThenQueuedIsHistory == delivered \o command_queue = history

\* Something was drained, something was queued after it, and a backend
\* report came last.
C2_Witness ==
    /\ delivered # << >>
    /\ command_queue # << >>
    /\ last_op.op \in BackendReportOps

(***************************************************************************)
(* C3: drain_commands() leaves the queue empty, and a drain that follows   *)
(* a drain with no mutator call in between (backend reports may come in    *)
(* between) returns the empty sequence.                                    *)
(***************************************************************************)
C3_SecondDrainIsEmpty ==
    /\ [](last_op.op = "drain_commands" => command_queue = << >>)
    /\ [][ (drain_mark = Len(call_log) /\ last_op'.op = "drain_commands") =>
              last_drain' = << >> ]_vars

\* A drain returned the empty sequence after an earlier drain had returned
\* commands, with a backend report made after those commands were queued.
C3_Witness ==
    /\ last_op.op = "drain_commands"
    /\ last_drain = << >>
    /\ delivered # << >>
    /\ backend.cursor # None

(***************************************************************************)
(* C4: after set_title, set_vsync, set_resizable, set_decorations,         *)
(* set_cursor_lock_mode, set_cursor_visibility, set_mode or set_resolution *)
(* was called with v, the matching accessor returns v: right after the     *)
(* call, and after any drains and backend reports, until the same mutator  *)
(* is called again.                                                        *)
(***************************************************************************)
C4_AccessorReturnsLastSetValue ==
    /\ HasCall("set_title") => title = LastCall("set_title").title
    /\ HasCall("set_vsync") => vsync = LastCall("set_vsync").vsync
    /\ HasCall("set_resizable") => resizable = LastCall("set_resizable").resizable
    /\ HasCall("set_decorations") =>
           decorations = LastCall("set_decorations").decorations
    /\ HasCall("set_cursor_lock_mode") =>
           cursor_locked = LastCall("set_cursor_lock_mode").lock_mode
    /\ HasCall("set_cursor_visibility") =>
           cursor_visible = LastCall("set_cursor_visibility").visibile_mode
    /\ HasCall("set_mode") => mode = LastCall("set_mode").mode
    /\ HasCall("set_resolution") =>
           /\ requested_width = LastCall("set_resolution").width
           /\ requested_height = LastCall("set_resolution").height

\* set_cursor_visibility changed the field, another mutator was called after
\* it, everything was drained and the backend reported last.
C4_Witness ==
    /\ Len(call_log) = 2
    /\ call_log[1].op = "set_cursor_visibility"
    /\ call_log[1].visibile_mode # window_descriptor.cursor_visible
    /\ call_log[2].op # "set_cursor_visibility"
    /\ command_queue = << >>
    /\ last_op.op \in BackendReportOps

(***************************************************************************)
(* C5: set_cursor_position(p) appends SetCursorPosition{p} and does not    *)
(* write cursor_position: the field is the argument of the most recent     *)
(* update_cursor_position_from_backend call, or absent when there was      *)
(* none, however many set_cursor_position calls and drains occurred.       *)
(***************************************************************************)
C5_CursorPositionOnlyFromBackend ==
    /\ cursor_position = (IF backend.cursor = None THEN None ELSE backend.cursor[1])
    /\ last_op.op = "set_cursor_position" =>
           /\ command_queue # << >>
           /\ command_queue[Len(command_queue)] = SetCursorPosition(last_op.position)

\* set_cursor_position ran after the backend had reported a position.
C5_Witness ==
    /\ last_op.op = "set_cursor_position"
    /\ cursor_position = Some(<<5, 5>>)
    /\ delivered # << >>

(***************************************************************************)
(* C6: the backend-report operations leave the command queue, length and   *)
(* contents, exactly as it was.                                            *)
(***************************************************************************)
C6_BackendReportsLeaveQueue ==
    [][ last_op'.op \in BackendReportOps => command_queue' = command_queue ]_vars

\* update_scale_factor_from_backend changed the scale factor while two
\* commands were queued.
C6_Witness ==
    /\ last_op.op = "update_scale_factor_from_backend"
    /\ window_descriptor = DefaultWindowDescriptor
    /\ scale_factor = 2
    /\ Len(command_queue) = 2

(***************************************************************************)
(* C7: set_mode(m) appends SetWindowMode{mode: m, resolution: (pw, ph)}    *)
(* where (pw, ph) is the physical size given at construction or by the     *)
(* most recent update_actual_size_from_backend; the requested size, and so *)
(* an earlier set_resolution, has no part in it.                           *)
(***************************************************************************)
C7_SetModeCarriesPhysicalSize ==
    last_op.op = "set_mode" =>
        /\ command_queue # << >>
        /\ command_queue[Len(command_queue)] = SetWindowMode(last_op.mode, backend.size)

\* set_mode ran after a set_resolution and after the backend had reported a
\* size that is neither the requested one nor the one of construction.
C7_Witness ==
    /\ last_op.op = "set_mode"
    /\ HasCall("set_resolution")
    /\ backend.size # <<requested_width, requested_height>>
    /\ window_descriptor = DefaultWindowDescriptor
    /\ backend.size = <<1920, 1080>>

(***************************************************************************)
(* C8: commands are never merged or dropped as duplicates: the queue       *)
(* length is the number of mutator calls made since the last drain (or     *)
(* since construction), also when a call repeats the value the field holds *)
(* or the command at the tail of the queue.                                *)
(***************************************************************************)
C8_OneCommandPerCall == Len(command_queue) = Len(call_log) - drain_mark

\* The same set_vsync call twice, with the value the field held already.
C8_Witness ==
    /\ Len(command_queue) = 2
    /\ command_queue[1] = command_queue[2]
    /\ command_queue[1] = SetVsync(window_descriptor.vsync)

(***************************************************************************)
(* C9: a queued command keeps the payload it was given: no later mutator   *)
(* call or backend report changes a command in the queue (only a drain     *)
(* removes it).  A queued SetWindowMode keeps its resolution when the      *)
(* physical size changes.                                                  *)
(***************************************************************************)
C9_QueuedCommandsAreSnapshots ==
    [][ last_op'.op # "drain_commands" =>
          /\ Len(command_queue') >= Len(command_queue)
          /\ \A i \in 1..Len(command_queue) : command_queue'[i] = command_queue[i]
       ]_vars

\* A queued SetWindowMode whose resolution is no longer the physical size.
C9_Witness ==
    /\ last_op.op = "update_actual_size_from_backend"
    /\ \E i \in 1..Len(command_queue) :
           /\ command_queue[i].type = "SetWindowMode"
           /\ command_queue[i].resolution # <<physical_width, physical_height>>

(***************************************************************************)
(* C10: Window::new gives an empty queue, an absent cursor position, the   *)
(* identity, physical size and scale factor of its arguments, and the      *)
(* requested size, title, vsync, resizable, decorations, cursor_visible,   *)
(* cursor_locked and mode of the descriptor; a drain right after it        *)
(* returns the empty sequence.                                             *)
(***************************************************************************)
C10_NewCopiesArgumentsAndDescriptor ==
    /\ [](last_op.op = "new" =>
            /\ command_queue = << >>
            /\ cursor_position = None
            /\ id = last_op.id
            /\ physical_width = last_op.physical_width
            /\ physical_height = last_op.physical_height
            /\ scale_factor = last_op.scale_factor
            /\ requested_width = last_op.window_descriptor.width
            /\ requested_height = last_op.window_descriptor.height
            /\ title = last_op.window_descriptor.title
            /\ vsync = last_op.window_descriptor.vsync
            /\ resizable = last_op.window_descriptor.resizable
            /\ decorations = last_op.window_descriptor.decorations
            /\ cursor_visible = last_op.window_descriptor.cursor_visible
            /\ cursor_locked = last_op.window_descriptor.cursor_locked
            /\ mode = last_op.window_descriptor.mode)
    /\ [][ (last_op.op = "new" /\ last_op'.op = "drain_commands") =>
              last_drain' = << >> ]_vars

\* A window just built from a descriptor whose size is not the physical one.
C10_Witness ==
    /\ last_op.op = "new"
    /\ last_op.window_descriptor = OtherWindowDescriptor
    /\ last_op.physical_width # last_op.window_descriptor.width
    /\ id # primary

(***************************************************************************)
(* Exact arithmetic on the quotient p / s, to state what width() and       *)
(* height() are compared with.                                             *)
(***************************************************************************)
RECURSIVE GCD(_, _)
GCD(a, b) == IF b = 0 THEN a ELSE GCD(b, a % b)

RECURSIVE OddPart(_)
OddPart(n) == IF n % 2 = 0 THEN OddPart(n \div 2) ELSE n

Abs(n) == IF n < 0 THEN 0 - n ELSE n

\* p / s (p, s > 0) is a value of f32: in lowest terms its denominator is a
\* power of two and its numerator has at most 24 significant bits.
Representable(p, s) ==
    LET g == GCD(p, s) IN
    /\ OddPart(s \div g) = 1
    /\ OddPart(p \div g) < Pow2(F32MantissaBits)

\* The float f is p / s.
Exactly(f, p, s) ==
    IF p = 0 THEN f = [kind |-> "zero"]
    ELSE /\ f.kind = "finite"
         /\ IF f.e >= 0 THEN f.m * Pow2(f.e) * s = p
                        ELSE f.m * s = p * Pow2(0 - f.e)

\* The float f is less than one step of its last place away from p / s.
WithinOneStep(f, p, s) ==
    IF p = 0 THEN f = [kind |-> "zero"]
    ELSE /\ f.kind = "finite"
         /\ Pow2(F32MantissaBits - 1) <= f.m
         /\ f.m < Pow2(F32MantissaBits)
         /\ IF f.e >= 0 THEN Abs(f.m * Pow2(f.e) * s - p) < Pow2(f.e) * s
                        ELSE Abs(f.m * s - p * Pow2(0 - f.e)) < s

\* width() and height() are what they were.  They are functions of the
\* physical size and the scale factor, so unchanged operands settle it
\* without redoing the division.
LogicalSizeUnchanged ==
    \/ << physical_width, physical_height, scale_factor >>' =
           << physical_width, physical_height, scale_factor >>
    \/ (Window_width' = Window_width /\ Window_height' = Window_height)

\* width() and height() change only with a backend report of the physical
\* size or the scale factor, and set_resolution sets the requested size
\* without changing them.
LogicalSizeIsDerived ==
    /\ \/ last_op'.op \in { "update_actual_size_from_backend",
                             "update_scale_factor_from_backend" }
       \/ LogicalSizeUnchanged
    /\ last_op'.op = "set_resolution" =>
           /\ LogicalSizeUnchanged
           /\ requested_width' = last_op'.width
           /\ requested_height' = last_op'.height

(***************************************************************************)
(* C11 as stated: whenever scale_factor > 0, width() is physical_width /   *)
(* scale_factor and height() is physical_height / scale_factor; only       *)
(* update_actual_size_from_backend and update_scale_factor_from_backend    *)
(* change width() and height(), and set_resolution changes the requested   *)
(* size without changing them.                                             *)
(***************************************************************************)
C11_LogicalSizeIsExactQuotient ==
    /\ [](scale_factor > 0 =>
            /\ Exactly(Window_width, physical_width, scale_factor)
            /\ Exactly(Window_height, physical_height, scale_factor))
    /\ [][LogicalSizeIsDerived]_vars

(***************************************************************************)
(* C11 as amended: whenever scale_factor > 0, width() and height() are the *)
(* quotients narrowed to f32: equal to physical / scale_factor when that   *)
(* quotient is a value of f32, and otherwise the f32 next to it, less than *)
(* one step of the last place away.  The rest of the claim stands: only    *)
(* the two backend reports change width() and height(), and set_resolution *)
(* changes the requested size without changing them.                       *)
(***************************************************************************)
C11_LogicalSizeIsRoundedQuotient ==
    /\ [](scale_factor > 0 =>
            /\ WithinOneStep(Window_width, physical_width, scale_factor)
            /\ WithinOneStep(Window_height, physical_height, scale_factor)
            /\ (physical_width > 0 /\ Representable(physical_width, scale_factor)) =>
                   Exactly(Window_width, physical_width, scale_factor)
            /\ (physical_height > 0 /\ Representable(physical_height, scale_factor)) =>
                   Exactly(Window_height, physical_height, scale_factor))
    /\ [][LogicalSizeIsDerived]_vars

\* A set_resolution call on a window whose width() is a rounded quotient
\* (1280 / 3) and whose height() is an exact one (720 / 3), with a requested
\* size that is not the logical one.
C11_Witness ==
    /\ last_op.op = "set_resolution"
    /\ physical_width = 1280
    /\ physical_height = 720
    /\ scale_factor = 3
    /\ ~Representable(physical_width, scale_factor)
    /\ Window_width = [kind |-> "finite", m |-> 13981013, e |-> -15]
    /\ Window_height = [kind |-> "finite", m |-> 15728640, e |-> -16]
    /\ requested_width = -1

(***************************************************************************)
(* C12: set_maximized(b) only appends SetMaximized{b}: every stored        *)
(* property keeps its value and every accessor, width() and height()       *)
(* included, returns what it returned before the call.                     *)
(***************************************************************************)
C12_SetMaximizedOnlyEnqueues ==
    [][ last_op'.op = "set_maximized" =>
          /\ command_queue' = Append(command_queue, SetMaximized(last_op'.maximized))
          /\ << id, requested_width, requested_height, physical_width,
                physical_height, scale_factor, title, vsync, resizable,
                decorations, cursor_visible, cursor_locked, cursor_position,
                mode >>' =
             << id, requested_width, requested_height, physical_width,
                physical_height, scale_factor, title, vsync, resizable,
                decorations, cursor_visible, cursor_locked, cursor_position,
                mode >>
          /\ Window_width' = Window_width
          /\ Window_height' = Window_height ]_vars

\* set_maximized(TRUE) ran on a resizable window after another mutator.
C12_Witness ==
    /\ last_op.op = "set_maximized"
    /\ last_op.maximized
    /\ resizable
    /\ Len(command_queue) = 2
    /\ command_queue[2] = SetMaximized(TRUE)

(***************************************************************************)
(* C13: a backend report and a drain commute: from the same window, the    *)
(* report followed by drain_commands() and drain_commands() followed by    *)
(* the report give the same drained sequence and the same window.          *)
(***************************************************************************)
C13_ReportAndDrainCommute ==
    (trial.phase = "drain_then_report" /\ last_op = trial.report) =>
        Observed = trial.first

\* Both orders were run on a window with a queued SetWindowMode, with a
\* report that changed the physical size.
C13_Witness ==
    /\ trial.phase = "drain_then_report"
    /\ last_op = trial.report
    /\ last_op.op = "update_actual_size_from_backend"
    /\ physical_width # trial.start.physical_width
    /\ Len(last_drain) = 2
    /\ last_drain[1].type = "SetWindowMode"

(***************************************************************************)
(* C14: every operation is total and validates nothing.  Each mutator      *)
(* (while the model's bound on calls leaves room), each backend report and *)
(* the drain can be taken in every reachable state with every input; an    *)
(* invalid input - a negative or zero requested size, a zero physical size *)
(* or scale factor - is stored as given and, for set_resolution, queued as *)
(* given; width() and height() still return a float (NaN or infinity for a *)
(* zero scale factor).                                                     *)
(***************************************************************************)
C14_OperationsAreTotal ==
    /\ Len(call_log) < MaxCalls =>
          /\ \A b \in BOOLEAN :
                /\ ENABLED set_maximized(b)
                /\ ENABLED set_vsync(b)
                /\ ENABLED set_resizable(b)
                /\ ENABLED set_decorations(b)
                /\ ENABLED set_cursor_lock_mode(b)
                /\ ENABLED set_cursor_visibility(b)
          /\ \A s \in NumericLogicalSizes \cup LogicalSizes :
                ENABLED set_resolution(s[1], s[2])
          /\ \A t \in Titles : ENABLED set_title(t)
          /\ \A p \in Positions : ENABLED set_cursor_position(p)
          /\ \A m \in WindowModes : ENABLED set_mode(m)
    /\ \A sf \in NumericScaleFactors \cup ScaleFactors :
          ENABLED update_scale_factor_from_backend(sf)
    /\ \A s \in NumericPhysicalSizes \cup PhysicalSizes :
          ENABLED update_actual_size_from_backend(s[1], s[2])
    /\ \A cp \in ReportedPositions : ENABLED update_cursor_position_from_backend(cp)
    /\ \A n \in 0..Len(command_queue) : ENABLED drain_commands(n)
    /\ last_op.op = "set_resolution" =>
          /\ requested_width = last_op.width
          /\ requested_height = last_op.height
          /\ command_queue # << >>
          /\ command_queue[Len(command_queue)] =
                SetResolution(<<last_op.width, last_op.height>>)
    /\ last_op.op = "update_actual_size_from_backend" =>
          /\ physical_width = last_op.physical_width
          /\ physical_height = last_op.physical_height
    /\ last_op.op = "update_scale_factor_from_backend" =>
          scale_factor = last_op.scale_factor
    /\ Window_width.kind \in {"zero", "finite", "inf", "nan"}
    /\ Window_height.kind \in {"zero", "finite", "inf", "nan"}

\* set_resolution(-1, 0) ran on a window whose physical size and scale
\* factor the backend had reported as zero.
C14_Witness ==
    /\ last_op.op = "set_resolution"
    /\ last_op.width = -1
    /\ last_op.height = 0
    /\ physical_width = 0
    /\ scale_factor = 0
    /\ Window_width = [kind |-> "nan"]

(***************************************************************************)
(* C15: primary() is the all-zero value, is_primary(id) holds exactly for  *)
(* id = primary(), the default identity is primary(), and no identity      *)
(* WindowId::new() returned is primary.                                    *)
(***************************************************************************)
C15_PrimaryIsTheZeroSentinel ==
    /\ primary = 0
    /\ is_primary(primary)
    /\ is_primary(WindowId_default)
    /\ \A wid \in 0..new_v4(Pow2(UuidRandomBits) - 1) :
           is_primary(wid) <=> wid = primary
    /\ \A i \in 1..Len(identities) : ~is_primary(identities[i].id)

\* WindowId::new() returned an identity when every random bit was zero.
C15_Witness ==
    /\ identities # << >>
    /\ identities[Len(identities)].random = 0
    /\ is_primary(id)

(***************************************************************************)
(* C16 as stated: every identity WindowId::new() returned differs from     *)
(* every identity an earlier call returned and from primary().             *)
(***************************************************************************)
C16_IdentitiesAllDistinct ==
    /\ \A i \in 1..Len(identities) : identities[i].id # primary
    /\ \A i, j \in 1..Len(identities) :
           i # j => identities[i].id # identities[j].id

(***************************************************************************)
(* C16 as amended: every identity WindowId::new() returned differs from    *)
(* primary(), and two calls returned different identities whenever the     *)
(* random bits they drew differ; nothing in the code tells a repeated draw *)
(* apart, so the identities are equal exactly when the draws are.          *)
(***************************************************************************)
C16_IdentitiesDistinctUnlessDrawRepeats ==
    /\ \A i \in 1..Len(identities) : identities[i].id # primary
    /\ \A i, j \in 1..Len(identities) :
           identities[i].id = identities[j].id <=>
               identities[i].random = identities[j].random

\* Three calls with three different draws, then: three different identities.
C16_Witness ==
    /\ Len(identities) = 3
    /\ identities[1].random = 0
    /\ identities[2].random = 1
    /\ identities[3].random = Pow2(UuidRandomBits) - 1
    /\ identities[1].id # identities[2].id
    /\ identities[2].id # identities[3].id

(***************************************************************************)
(* C17: the physical size, the scale factor and the cursor position change *)
(* only in their backend report; the requested size, title, vsync,         *)
(* resizable, decorations, cursor_visible, cursor_locked and mode change   *)
(* only in their own mutator; drain_commands() changes no field; and the   *)
(* id never changes.                                                       *)
(***************************************************************************)
C17_EachFieldHasOneWriter ==
    [][ /\ id' = id
        /\ (physical_width' # physical_width \/ physical_height' # physical_height)
               => last_op'.op = "update_actual_size_from_backend"
        /\ scale_factor' # scale_factor
               => last_op'.op = "update_scale_factor_from_backend"
        /\ cursor_position' # cursor_position
               => last_op'.op = "update_cursor_position_from_backend"
        /\ (requested_width' # requested_width \/ requested_height' # requested_height)
               => last_op'.op = "set_resolution"
        /\ title' # title => last_op'.op = "set_title"
        /\ vsync' # vsync => last_op'.op = "set_vsync"
        /\ resizable' # resizable => last_op'.op = "set_resizable"
        /\ decorations' # decorations => last_op'.op = "set_decorations"
        /\ cursor_visible' # cursor_visible => last_op'.op = "set_cursor_visibility"
        /\ cursor_locked' # cursor_locked => last_op'.op = "set_cursor_lock_mode"
        /\ mode' # mode => last_op'.op = "set_mode"
        /\ last_op'.op = "drain_commands" => UNCHANGED fields ]_vars

\* A mode change made while the backend had reported a cursor position, and
\* the position is still there.
C17_Witness ==
    /\ last_op.op = "set_mode"
    /\ mode # window_descriptor.mode
    /\ cursor_position # None
    /\ title = window_descriptor.title

(***************************************************************************)
(* C18: each of title, vsync, resizable, decorations, cursor_locked,       *)
(* cursor_visible, mode and requested size equals the payload of the most  *)
(* recent command of its variant ever queued, drained or not, or the       *)
(* descriptor's value when no such command was ever queued.                *)
(***************************************************************************)
HasCommand(type) == \E i \in 1..Len(history) : history[i].type = type
LastCommand(type) ==
    LET k == CHOOSE i \in 1..Len(history) :
                 /\ history[i].type = type
                 /\ \A j \in (i + 1)..Len(history) : history[j].type # type
    IN  history[k]

C18_StateFollowsCommandHistory ==
    /\ title = IF HasCommand("SetTitle") THEN LastCommand("SetTitle").title
               ELSE window_descriptor.title
    /\ vsync = IF HasCommand("SetVsync") THEN LastCommand("SetVsync").vsync
               ELSE window_descriptor.vsync
    /\ resizable = IF HasCommand("SetResizable")
                   THEN LastCommand("SetResizable").resizable
                   ELSE window_descriptor.resizable
    /\ decorations = IF HasCommand("SetDecorations")
                     THEN LastCommand("SetDecorations").decorations
                     ELSE window_descriptor.decorations
    /\ cursor_locked = IF HasCommand("SetCursorLockMode")
                       THEN LastCommand("SetCursorLockMode").locked
                       ELSE window_descriptor.cursor_locked
    /\ cursor_visible = IF HasCommand("SetCursorVisibility")
                        THEN LastCommand("SetCursorVisibility").visible
                        ELSE window_descriptor.cursor_visible
    /\ mode = IF HasCommand("SetWindowMode") THEN LastCommand("SetWindowMode").mode
              ELSE window_descriptor.mode
    /\ << requested_width, requested_height >> =
           IF HasCommand("SetResolution") THEN LastCommand("SetResolution").resolution
           ELSE << window_descriptor.width, window_descriptor.height >>

\* Two titles were set, the first one's command was drained, the second
\* one's is still queued, and the title is the second one.
C18_Witness ==
    /\ Len(history) = 2
    /\ history[1].type = "SetTitle"
    /\ history[2].type = "SetTitle"
    /\ history[1].title # history[2].title
    /\ Len(delivered) = 1
    /\ Len(command_queue) = 1
    /\ title = history[2].title
    /\ vsync = window_descriptor.vsync

(***************************************************************************)
(* C19: there is no partial drain.  drain_commands() hands out the whole   *)
(* queue; when the caller lets go of what it was handed the queue is       *)
(* empty, however short a prefix it read; and a drain hands out only       *)
(* commands queued since the previous drain, so a command left unread is   *)
(* never handed out again.                                                 *)
(***************************************************************************)
C19_NoPartialDrain ==
    /\ [](last_op.op = "drain_commands" =>
              /\ command_queue = << >>
              /\ Len(last_taken) <= Len(last_drain)
              /\ last_taken = SubSeq(last_drain, 1, Len(last_taken)))
    /\ [][ last_op'.op = "drain_commands" =>
              /\ last_drain' = command_queue
              /\ last_drain' = SubSeq(history, Len(history) - Len(PendingCalls) + 1,
                                      Len(history)) ]_vars

\* The caller read one of two commands, and the queue is empty.
C19_Witness ==
    /\ last_op.op = "drain_commands"
    /\ Len(last_drain) = 2
    /\ Len(last_taken) = 1
    /\ command_queue = << >>

====
